---- MODULE Spec2Model ----
(***************************************************************************)
(* A model of flog's generator: Generate (the generation loop and the      *)
(* split controller), NewWriter (the three writer backends), NewLog (the   *)
(* line source dispatch) and NewSplitFileName (the split file naming).     *)
(*                                                                         *)
(* Strings that the code takes apart (file paths) are sequences of         *)
(* one-character strings.  A log line is represented by its byte length,   *)
(* the only thing Generate reads from it.                                  *)
(***************************************************************************)
EXTENDS Integers, Sequences, FiniteSets, TLC

\* ------------------------------------------------------------------ bounds

\* Largest line-count target (Option.Number) explored.
MaxNumber == 5
\* Largest byte-count target (Option.Bytes) explored.
MaxBytes == 4
\* Largest split threshold (Option.SplitBy) explored.
MaxSplitBy == 2
\* Largest byte length of a line a log formatter returns.
MaxLogLen == 2
\* Largest number of loop iterations followed in a run that never leaves its loop.
MaxIter == 6
\* Largest split count handed to NewSplitFileName in the naming specification.
MaxCount == 120

\* ------------------------------------------------------------- the options

\* var validFormats, and one value ParseFormat would reject.
validFormats == {"apache_common", "apache_combined", "apache_error", "rfc3164"}
Formats == {"apache_common", "json"}

\* var validTypes, and one value ParseType would reject.
validTypes == {"stdout", "log", "gz"}
Types == validTypes \cup {"tar"}

\* Option.Output values of the runs: "a.l" and "d.d/f".
Outputs == { <<"a", ".", "l">>, <<"d", ".", "d", "/", "f">> }

\* Option.Sleep, in microseconds (the code holds seconds as a float64).
Sleeps == {0, 1500}

\* type Option
Option == [Format : Formats, Output : Outputs, Type : Types,
           Number : 0..MaxNumber, Bytes : 0..MaxBytes, Sleep : Sleeps,
           SplitBy : 0..MaxSplitBy, Overwrite : BOOLEAN]

\* --------------------------------------------------------------- the state

VARIABLES
    option,       \* the *Option Generate was called with
    pc,           \* where Generate is: "start", "lines", "bytes", "final",
                  \*   "done" (returned nil), "error" (returned err), "panic"
    splitCount,   \* Generate's splitCount
    delta,        \* Generate's delta, in milliseconds
    logFileName,  \* Generate's logFileName
    writer,       \* Generate's writer: [kind, seg]; kind "nil" is the nil interface
    line,         \* the line loop's counter
    bytes,        \* the byte loop's accumulator
    fs,           \* the files the run has touched: name -> [before, now, truncated]
    fds,          \* names of the files whose descriptor is open
    segs,         \* the writers NewWriter handed out, in order:
                  \*   [name, kind, lines, units, failed, closed, closes]
    notices,      \* the names printed as "<name> is created."
    produced,     \* the lines NewLog returned, in order: [len, delta]
    sink          \* "ok", or "broken": the output rejects every write
                  \*   (disk full, broken pipe)

vars == <<option, pc, splitCount, delta, logFileName, writer, line, bytes,
          fs, fds, segs, notices, produced, sink>>

\* ------------------------------------------------- NewSplitFileName's parts

\* filepath.Ext: the suffix of path beginning at the final dot of its final
\* element (the text after the last "/"); empty when that element has no dot.
RECURSIVE ExtFrom(_, _)
ExtFrom(path, i) ==
    IF i < 1 \/ path[i] = "/" THEN << >>
    ELSE IF path[i] = "." THEN SubSeq(path, i, Len(path))
    ELSE ExtFrom(path, i - 1)

Ext(path) == ExtFrom(path, Len(path))

\* strings.TrimSuffix
TrimSuffix(s, suffix) ==
    IF /\ Len(suffix) <= Len(s)
       /\ SubSeq(s, Len(s) - Len(suffix) + 1, Len(s)) = suffix
    THEN SubSeq(s, 1, Len(s) - Len(suffix))
    ELSE s

\* strconv.Itoa
DigitChars == <<"0", "1", "2", "3", "4", "5", "6", "7", "8", "9">>

RECURSIVE Itoa(_)
Itoa(n) ==
    IF n < 0 THEN <<"-">> \o Itoa(-n)
    ELSE IF n < 10 THEN <<DigitChars[n + 1]>>
    ELSE Itoa(n \div 10) \o <<DigitChars[(n % 10) + 1]>>

\* NewSplitFileName with the count dropped from the name.
NewSplitFileNameNoCount(path, count) == path

\* NewSplitFileName with the extension taken from the last dot of the whole path.
RECURSIVE LastDotFrom(_, _)
LastDotFrom(path, i) ==
    IF i < 1 THEN 0 ELSE IF path[i] = "." THEN i ELSE LastDotFrom(path, i - 1)

NewSplitFileNameWholePath(path, count) ==
    LET d == LastDotFrom(path, Len(path))
        ext == IF d = 0 THEN << >> ELSE SubSeq(path, d, Len(path))
    IN TrimSuffix(path, ext) \o Itoa(count) \o ext

\* func NewSplitFileName(path string, count int) string
NewSplitFileName(path, count) ==
    LET logFileNameExt == Ext(path)
        pathWithoutExt == TrimSuffix(path, logFileNameExt)
    IN pathWithoutExt \o Itoa(count) \o logFileNameExt

\* ------------------------------------------------------------------ NewLog

\* The byte lengths of the lines the four formatters (NewApacheCommonLog,
\* NewApacheCombinedLog, NewApacheErrorLog, NewRFC3164Log) return: never empty.
FormattedLens == 1..MaxLogLen

\* func NewLog(format string, delta time.Duration) string: the lengths of the
\* lines it can return.  The formatters draw from a random source, so the
\* length is any of FormattedLens; an unknown format gives the empty line.
NewLog(format, d) ==
    CASE format = "apache_common"   -> FormattedLens
      [] format = "apache_combined" -> FormattedLens
      [] format = "apache_error"    -> FormattedLens
      [] format = "rfc3164"         -> FormattedLens
      [] OTHER                      -> {0}

\* --------------------------------------------------------------- NewWriter

\* What a path can be when it is opened.
FileStates == {"absent", "present", "denied"}

\* func NewWriter(logType string, logFileName string) (io.WriteCloser, error),
\* on a path in state st.  kind is the handle returned ("nil": the nil
\* interface), err whether an error is returned, now the path's state after
\* the call, truncated whether content the path held was discarded, fd whether
\* a file descriptor was opened.
\*   log: os.OpenFile(name, O_RDWR|O_APPEND, 0666), no O_CREATE
\*   gz:  os.Create(name) (O_RDWR|O_CREATE|O_TRUNC), wrapped by gzip.NewWriter
NewWriter(logType, name, st) ==
    CASE logType = "stdout" ->
           [kind |-> "stdout", err |-> FALSE, now |-> st, truncated |-> FALSE, fd |-> FALSE]
      [] logType = "log" ->
           IF st = "present"
           THEN [kind |-> "file", err |-> FALSE, now |-> st, truncated |-> FALSE, fd |-> TRUE]
           ELSE [kind |-> "nil", err |-> TRUE, now |-> st, truncated |-> FALSE, fd |-> FALSE]
      [] logType = "gz" ->
           IF st = "denied"
           THEN [kind |-> "nil", err |-> TRUE, now |-> st, truncated |-> FALSE, fd |-> FALSE]
           ELSE [kind |-> "gzip", err |-> FALSE, now |-> "present",
                 truncated |-> (st = "present"), fd |-> TRUE]
      [] OTHER ->
           [kind |-> "nil", err |-> FALSE, now |-> st, truncated |-> FALSE, fd |-> FALSE]

\* The states NewWriter can find name in: the one the run left it in, or any
\* state when the run has not touched it.  stdout and unknown types open no path.
StatusSeen(logType, name) ==
    IF logType \notin {"log", "gz"} THEN {"absent"}
    ELSE IF name \in DOMAIN fs THEN {fs[name].now}
    ELSE FileStates

\* The file system after NewWriter(logType, name) returned r on state st.
FsAfter(logType, name, st, r) ==
    IF logType \notin {"log", "gz"} THEN fs
    ELSE IF name \in DOMAIN fs
         THEN [fs EXCEPT ![name].now = r.now,
                         ![name].truncated = @ \/ r.truncated]
         ELSE [n \in DOMAIN fs \cup {name} |->
                 IF n = name
                 THEN [before |-> st, now |-> r.now, truncated |-> r.truncated]
                 ELSE fs[n]]

\* segs with the writer NewWriter returned added.
SegsAfter(s, name, r) ==
    Append(s, [name |-> name, kind |-> r.kind, lines |-> 0, units |-> 0,
               failed |-> 0, closed |-> FALSE, closes |-> 0])

\* writer.Write([]byte(log + "\n")) on a non-nil writer, log of length len:
\* the line goes out, or the write returns an error and nothing goes out.
\* Generate reads neither result of Write.
WriteLine(s, w, len) ==
    IF sink = "ok"
    THEN [s EXCEPT ![w.seg].lines = @ + 1, ![w.seg].units = @ + len]
    ELSE [s EXCEPT ![w.seg].failed = @ + 1]

\* writer.Close(): an *os.File closes its descriptor; a *gzip.Writer flushes
\* and closes the compressor and leaves the file it wraps open.
\* writer.Close() left out.
CloseSegNone(s, w) == s

CloseSeg(s, w) == [s EXCEPT ![w.seg].closed = TRUE, ![w.seg].closes = @ + 1]

CloseFds(s, w, f) == IF w.kind = "file" THEN f \ {s[w.seg].name} ELSE f

\* ---------------------------------------------------------------- Generate

\* Generate's locals before its first statement that can fail: splitCount := 1,
\* delta := 0, logFileName := option.Output; nothing opened, written or printed.
Init ==
    /\ option \in Option
    /\ pc = "start"
    /\ splitCount = 1
    /\ delta = 0
    /\ logFileName = option.Output
    /\ writer = [kind |-> "nil", seg |-> 0]
    /\ line = 0
    /\ bytes = 0
    /\ fs = << >>
    /\ fds = {}
    /\ segs = << >>
    /\ notices = << >>
    /\ produced = << >>
    /\ sink = "ok"

\* The mode test with the usage text's rule: the line count wins when it is set.
LineModeNumberFirst(opt) == opt.Number > 0 \/ opt.Bytes = 0

\* if option.Bytes == 0
LineMode(opt) == opt.Bytes = 0

\* The line loop's condition, off by one.
LineCondInclusive(opt, l) == l <= opt.Number

\* for line := 0; line < option.Number; line++
LineCond(opt, l) == l < opt.Number

\* The byte loop's condition testing the target before it is reached.
ByteCondEarly(opt, b) == b + 1 < opt.Bytes

\* for bytes < option.Bytes
ByteCond(opt, b) == b < opt.Bytes

\* The line loop's split test without the output type.
SplitLinesAnyType(opt, l, sc) == (opt.SplitBy > 0) /\ (l > opt.SplitBy * sc)

\* (option.Type != "stdout") && (option.SplitBy > 0) && (line > option.SplitBy*splitCount)
SplitLines(opt, l, sc) ==
    (opt.Type # "stdout") /\ (opt.SplitBy > 0) /\ (l > opt.SplitBy * sc)

\* (option.Type != "stdout") && (option.SplitBy > 0) && (bytes > option.SplitBy*splitCount+1)
SplitBytes(opt, b, sc) ==
    (opt.Type # "stdout") /\ (opt.SplitBy > 0) /\ (b > opt.SplitBy * sc + 1)

\* delta += time.Duration(option.Sleep*float64(time.Second/time.Millisecond)) * time.Millisecond
\* (the conversion to time.Duration drops the fraction of a millisecond)
Advance(opt, d) == d + (opt.Sleep \div 1000)

\* writer, err := NewWriter(option.Type, logFileName); if err != nil { return err };
\* then the choice of the loop.
Start(opt) ==
    /\ pc = "start"
    /\ \E st \in StatusSeen(opt.Type, logFileName) :
         LET r == NewWriter(opt.Type, logFileName, st) IN
         /\ fs' = FsAfter(opt.Type, logFileName, st, r)
         /\ fds' = IF r.fd THEN fds \cup {logFileName} ELSE fds
         /\ segs' = SegsAfter(segs, logFileName, r)
         /\ writer' = [kind |-> r.kind, seg |-> Len(segs) + 1]
         /\ pc' = IF r.err THEN "error"
                  ELSE IF LineMode(opt) THEN "lines" ELSE "bytes"
    /\ UNCHANGED <<option, sink, splitCount, delta, logFileName, line, bytes, notices,
                   produced>>

\* The split with the next name derived from the current file name, not from
\* option.Output.
RolloverChained(opt, s) ==
    LET name == NewSplitFileName(logFileName, splitCount) IN
    \E st \in StatusSeen(opt.Type, name) :
        LET r == NewWriter(opt.Type, name, st)
            closedFds == CloseFds(s, writer, fds)
        IN
        /\ notices' = Append(notices, logFileName)
        /\ logFileName' = name
        /\ fs' = FsAfter(opt.Type, name, st, r)
        /\ fds' = IF r.fd THEN closedFds \cup {name} ELSE closedFds
        /\ segs' = SegsAfter(CloseSeg(s, writer), name, r)
        /\ writer' = [kind |-> r.kind, seg |-> Len(s) + 1]
        /\ splitCount' = splitCount + 1

\* The split: writer.Close(); fmt.Println(logFileName, "is created.");
\* logFileName = NewSplitFileName(option.Output, splitCount);
\* writer, _ = NewWriter(option.Type, logFileName); splitCount++
\* s is segs after the iteration's write.
Rollover(opt, s) ==
    LET name == NewSplitFileName(opt.Output, splitCount) IN
    \E st \in StatusSeen(opt.Type, name) :
        LET r == NewWriter(opt.Type, name, st)
            closedFds == CloseFds(s, writer, fds)
        IN
        /\ notices' = Append(notices, logFileName)
        /\ logFileName' = name
        /\ fs' = FsAfter(opt.Type, name, st, r)
        /\ fds' = IF r.fd THEN closedFds \cup {name} ELSE closedFds
        /\ segs' = SegsAfter(CloseSeg(s, writer), name, r)
        /\ writer' = [kind |-> r.kind, seg |-> Len(s) + 1]
        /\ splitCount' = splitCount + 1

\* The body both loops share, for a line of length len: the write, the split
\* when split holds, the advance of delta.
Iteration(opt, len, split) ==
    /\ produced' = Append(produced, [len |-> len, delta |-> delta])
    /\ IF split
       THEN Rollover(opt, WriteLine(segs, writer, len))
       ELSE /\ segs' = WriteLine(segs, writer, len)
            /\ UNCHANGED <<writer, fs, fds, notices, logFileName, splitCount>>
    /\ delta' = Advance(opt, delta)

\* One iteration of the line loop.
LineIter(opt) ==
    /\ pc = "lines"
    /\ LineCond(opt, line)
    /\ writer.kind # "nil"
    /\ \E len \in NewLog(opt.Format, delta) :
         Iteration(opt, len, SplitLines(opt, line, splitCount))
    /\ line' = line + 1
    /\ UNCHANGED <<option, sink, pc, bytes>>

\* The line loop ends.
LineExit(opt) ==
    /\ pc = "lines"
    /\ ~LineCond(opt, line)
    /\ pc' = "final"
    /\ UNCHANGED <<option, sink, splitCount, delta, logFileName, writer, line, bytes,
                   fs, fds, segs, notices, produced>>

\* One iteration of the byte loop (bytes := 0 is its initial value).
ByteIter(opt) ==
    /\ pc = "bytes"
    /\ ByteCond(opt, bytes)
    /\ writer.kind # "nil"
    /\ Len(produced) < MaxIter
    /\ \E len \in NewLog(opt.Format, delta) :
         /\ Iteration(opt, len, SplitBytes(opt, bytes + len, splitCount))
         /\ bytes' = bytes + len
    /\ UNCHANGED <<option, sink, pc, line>>

\* The byte loop ends.
ByteExit(opt) ==
    /\ pc = "bytes"
    /\ ~ByteCond(opt, bytes)
    /\ pc' = "final"
    /\ UNCHANGED <<option, sink, splitCount, delta, logFileName, writer, line, bytes,
                   fs, fds, segs, notices, produced>>

\* An iteration of either loop with the nil writer: NewLog returns its line and
\* writer.Write panics on the nil interface.
NilWrite(opt) ==
    /\ \/ pc = "lines" /\ LineCond(opt, line)
       \/ pc = "bytes" /\ ByteCond(opt, bytes)
    /\ writer.kind = "nil"
    /\ \E len \in NewLog(opt.Format, delta) :
         produced' = Append(produced, [len |-> len, delta |-> delta])
    /\ pc' = "panic"
    /\ UNCHANGED <<option, sink, splitCount, delta, logFileName, writer, line, bytes,
                   fs, fds, segs, notices>>

\* if option.Type != "stdout" { writer.Close(); fmt.Println(logFileName, "is created.") }
\* return nil
Finish(opt) ==
    /\ pc = "final"
    /\ opt.Type = "stdout" \/ writer.kind # "nil"
    /\ IF opt.Type # "stdout"
       THEN /\ segs' = CloseSeg(segs, writer)
            /\ fds' = CloseFds(segs, writer, fds)
            /\ notices' = Append(notices, logFileName)
       ELSE UNCHANGED <<segs, fds, notices>>
    /\ pc' = "done"
    /\ UNCHANGED <<option, sink, splitCount, delta, logFileName, writer, line, bytes,
                   fs, produced>>

\* The final writer.Close() on the nil interface panics.
NilClose(opt) ==
    /\ pc = "final"
    /\ opt.Type # "stdout"
    /\ writer.kind = "nil"
    /\ pc' = "panic"
    /\ UNCHANGED <<option, sink, splitCount, delta, logFileName, writer, line, bytes,
                   fs, fds, segs, notices, produced>>

\* One step of Generate called with opt.
Step(opt) ==
    \/ Start(opt)
    \/ LineIter(opt)
    \/ LineExit(opt)
    \/ ByteIter(opt)
    \/ ByteExit(opt)
    \/ NilWrite(opt)
    \/ Finish(opt)
    \/ NilClose(opt)

Next ==
    \/ Start(option)
    \/ LineIter(option)
    \/ LineExit(option)
    \/ ByteIter(option)
    \/ ByteExit(option)
    \/ NilWrite(option)
    \/ Finish(option)
    \/ NilClose(option)

Spec == Init /\ [][Next]_vars

\* ------------------------------------------------ Generate on a failing output

\* The output starts to reject writes while a loop runs (the disk fills up, the
\* reader of the pipe goes away); it stays that way.
Break ==
    /\ pc \in {"lines", "bytes"}
    /\ sink = "ok"
    /\ sink' = "broken"
    /\ UNCHANGED <<option, pc, splitCount, delta, logFileName, writer, line, bytes,
                   fs, fds, segs, notices, produced>>

NextFault ==
    \/ Next
    \/ Break

\* Generate with an output that may start to fail.
SpecFault == Init /\ [][NextFault]_vars

\* ------------------------------------- NewSplitFileName applied on its own

\* The paths NewSplitFileName is applied to: "generated.log", "archive.tar.gz",
\* "noext", "d.d/f" (a dot in a directory name only), ".rc", "d/a.b.c".
NamePaths ==
    { <<"g", "e", "n", "e", "r", "a", "t", "e", "d", ".", "l", "o", "g">>,
      <<"a", "r", "c", "h", "i", "v", "e", ".", "t", "a", "r", ".", "g", "z">>,
      <<"n", "o", "e", "x", "t">>,
      <<"d", ".", "d", "/", "f">>,
      <<".", "r", "c">>,
      <<"d", "/", "a", ".", "b", ".", "c">> }

\* The calls explored: NewSplitFileName(option.Output, splitCount) for every
\* path of NamePaths and every count in 1..MaxCount.
InitName ==
    /\ option \in [Format : {"apache_common"}, Output : NamePaths, Type : {"log"},
                   Number : {0}, Bytes : {0}, Sleep : {0}, SplitBy : {1},
                   Overwrite : {FALSE}]
    /\ pc = "name"
    /\ splitCount \in 1..MaxCount
    /\ delta = 0
    /\ logFileName = option.Output
    /\ writer = [kind |-> "nil", seg |-> 0]
    /\ line = 0
    /\ bytes = 0
    /\ fs = << >>
    /\ fds = {}
    /\ segs = << >>
    /\ notices = << >>
    /\ produced = << >>
    /\ sink = "ok"

\* logFileName = NewSplitFileName(option.Output, splitCount)
Derive ==
    /\ pc = "name"
    /\ logFileName' = NewSplitFileName(option.Output, splitCount)
    /\ pc' = "named"
    /\ UNCHANGED <<option, sink, splitCount, delta, writer, line, bytes, fs, fds, segs,
                   notices, produced>>

NextName == Derive

SpecName == InitName /\ [][NextName]_vars

\* ------------------------------------------------ what a run has produced

RECURSIVE SumLen(_)
\* The byte lengths of the produced lines p, summed (terminators excluded).
SumLen(p) == IF p = << >> THEN 0 ELSE Head(p).len + SumLen(Tail(p))

RECURSIVE TotalLines(_)
\* The lines written through the writers s, summed.
TotalLines(s) == IF s = << >> THEN 0 ELSE Head(s).lines + TotalLines(Tail(s))

RECURSIVE TotalUnits(_)
\* The line bytes written through the writers s, summed.
TotalUnits(s) == IF s = << >> THEN 0 ELSE Head(s).units + TotalUnits(Tail(s))

\* The run finished: Generate returned nil.
Finished == pc = "done"

\* -------------------------------------------------------------- the claims

\* C1: in line-count mode (Bytes = 0) a run of Generate that reaches its end
\* has produced exactly Number lines and has written exactly Number lines in
\* total across all the writers it used; for Number = 0 that is no line.
C1_ExactLineCount ==
    (option.Bytes = 0 /\ Finished) =>
        /\ Len(produced) = option.Number
        /\ TotalLines(segs) = option.Number

\* C1's case: a finished line-count run over three segments.
C1_Witness ==
    /\ option.Bytes = 0 /\ Finished
    /\ option.Number >= 4 /\ Len(segs) >= 3
    /\ TotalLines(segs) = option.Number

\* C2: in byte-count mode (Bytes = B > 0) every line was produced while the
\* sum of the lengths of the lines before it was below B, and when Generate has
\* finished the sum of the lengths of all produced lines is >= B and less than
\* B plus the length of the last produced line; the loop's accumulator is that sum.
C2_ByteTarget ==
    (option.Bytes > 0 /\ pc \in {"bytes", "final", "done"}) =>
        /\ bytes = SumLen(produced)
        /\ \A i \in 1..Len(produced) :
               SumLen(SubSeq(produced, 1, i - 1)) < option.Bytes
        /\ Finished =>
               /\ produced # << >>
               /\ SumLen(produced) >= option.Bytes
               /\ SumLen(produced) < option.Bytes + produced[Len(produced)].len

\* C2's case: a finished byte-count run whose last line overshot the target.
C2_Witness ==
    /\ option.Bytes > 0 /\ Finished
    /\ Len(produced) >= 2
    /\ SumLen(produced) > option.Bytes

C4_NumberTakesPrecedence ==
    (option.Number > 0 /\ option.Bytes > 0 /\ Finished) =>
        /\ Len(produced) = option.Number
        /\ TotalLines(segs) = option.Number

\* C5: with output type stdout no rollover ever happens, whatever the split
\* threshold and in both modes: the writer NewWriter first returned stays the
\* writer, splitCount stays 1, the file name stays the base path and no
\* "is created." notice is printed.
C5_StdoutNeverSplits ==
    option.Type = "stdout" =>
        /\ splitCount = 1
        /\ notices = << >>
        /\ logFileName = option.Output
        /\ Len(segs) <= 1
        /\ pc # "start" => writer = [kind |-> "stdout", seg |-> 1]
        /\ fs = << >> /\ fds = {}

\* C5's case: a finished stdout run whose line count and byte count went past
\* every multiple of the split threshold that splits a file run.
C5_Witness ==
    /\ option.Type = "stdout" /\ option.SplitBy = 1 /\ Finished
    /\ Len(produced) >= 4 /\ SumLen(produced) >= 4
    /\ segs[1].lines = Len(produced)

\* ceil(a / b) for b > 0
Ceil(a, b) == (a + b - 1) \div b

\* The units a run wrote: lines in line-count mode, line bytes in byte-count mode.
WrittenUnits == IF option.Bytes = 0 THEN TotalLines(segs) ELSE TotalUnits(segs)

\* C6: with split threshold T > 0 and an output type other than stdout, a
\* finished run has produced ceil(totalUnits / T) segment files; stated for the
\* line-count runs that wrote at least one line, where a unit is a line.
C6_SegmentCount ==
    (/\ Finished /\ option.Type # "stdout" /\ option.SplitBy > 0
     /\ option.Bytes = 0 /\ WrittenUnits > 0) =>
        Len(segs) = Ceil(WrittenUnits, option.SplitBy)

\* C7: in line-count mode with split threshold T > 0 and an output type other
\* than stdout, the first segment file receives at most T + 1 lines and every
\* later one at most T.
C7_SegmentSizes ==
    (option.Bytes = 0 /\ option.Type # "stdout" /\ option.SplitBy > 0) =>
        \A i \in 1..Len(segs) :
            segs[i].lines <= IF i = 1 THEN option.SplitBy + 1 ELSE option.SplitBy

\* C8: within one run the names NewWriter is called with (the base path, then
\* each rollover name) are pairwise distinct, and a writer that has been closed
\* stays closed and receives no further line.
C8_ClosedSegmentsStayClosed ==
    [][ /\ \A i, j \in 1..Len(segs') : segs'[i].name = segs'[j].name => i = j
        /\ \A i \in 1..Len(segs) :
               segs[i].closed => (Len(segs') >= i /\ segs'[i] = segs[i]) ]_vars

\* C8's case: a finished run that opened and closed three segment files, with
\* lines written to the first two before they were closed.
C8_Witness ==
    /\ Finished /\ Len(segs) >= 3
    /\ \A i \in 1..Len(segs) : segs[i].closed /\ segs[i].kind # "nil"
    /\ segs[1].lines > 0 /\ segs[2].lines > 0

\* C10: for output type log, NewWriter on a path that does not exist succeeds
\* and creates the file, at the initial open and at every rollover; it fails
\* only on a path that is inaccessible.
C10_LogOpenCreates ==
    option.Type = "log" =>
        \A i \in 1..Len(segs) :
            /\ fs[segs[i].name].before = "absent" =>
                   (segs[i].kind # "nil" /\ fs[segs[i].name].now = "present")
            /\ segs[i].kind = "nil" => fs[segs[i].name].before = "denied"

\* The last place of character c in path p, 0 when p has none.
LastIndex(p, c) ==
    LET I == {i \in 1..Len(p) : p[i] = c}
    IN IF I = {} THEN 0 ELSE CHOOSE i \in I : \A j \in I : j <= i

\* The number a character stands for as a decimal digit, -1 for any other.
DigitValue(c) ==
    IF \E d \in 0..9 : DigitChars[d + 1] = c
    THEN CHOOSE d \in 0..9 : DigitChars[d + 1] = c
    ELSE -1

RECURSIVE DecimalValue(_)
\* The number a sequence of decimal digits denotes.
DecimalValue(m) ==
    IF m = << >> THEN 0
    ELSE 10 * DecimalValue(SubSeq(m, 1, Len(m) - 1)) + DigitValue(m[Len(m)])

\* m is decimal(n) for n >= 0: digits only, no leading zero, of value n.
IsDecimal(m, n) ==
    /\ m # << >>
    /\ \A i \in 1..Len(m) : DigitValue(m[i]) >= 0
    /\ Len(m) > 1 => m[1] # "0"
    /\ DecimalValue(m) = n

\* name is stem + decimal(n) + ext, where stem is path p with its suffix ext removed.
IsStemCountExt(name, p, n, ext) ==
    LET stem == SubSeq(p, 1, Len(p) - Len(ext)) IN
    /\ Len(name) > Len(p)
    /\ SubSeq(name, 1, Len(stem)) = stem
    /\ SubSeq(name, Len(name) - Len(ext) + 1, Len(name)) = ext
    /\ IsDecimal(SubSeq(name, Len(stem) + 1, Len(name) - Len(ext)), n)

\* The extension as C9 has it: from the last "." of p to its end, empty
\* when p has no ".".
ExtOfWholePath(p) ==
    IF LastIndex(p, ".") = 0 THEN << >> ELSE SubSeq(p, LastIndex(p, "."), Len(p))

\* The extension from the last "." of p's final element (the text after the
\* last "/") to the end, empty when that element has no ".".
ExtOfFinalElement(p) ==
    IF LastIndex(p, ".") > LastIndex(p, "/")
    THEN SubSeq(p, LastIndex(p, "."), Len(p))
    ELSE << >>

\* The three results the specification lists.
NamingExamples ==
    /\ (option.Output = <<"g", "e", "n", "e", "r", "a", "t", "e", "d", ".", "l", "o", "g">> /\ splitCount = 2) => logFileName = <<"g", "e", "n", "e", "r", "a", "t", "e", "d", "2", ".", "l", "o", "g">>
    /\ (option.Output = <<"a", "r", "c", "h", "i", "v", "e", ".", "t", "a", "r", ".", "g", "z">> /\ splitCount = 3) => logFileName = <<"a", "r", "c", "h", "i", "v", "e", ".", "t", "a", "r", "3", ".", "g", "z">>
    /\ (option.Output = <<"n", "o", "e", "x", "t">> /\ splitCount = 5) => logFileName = <<"n", "o", "e", "x", "t", "5">>

\* C9 as stated: NewSplitFileName(P, N) is stem + decimal(N) + ext for every
\* path P and N >= 1, ext being the substring of P from its last "." to the end
\* (empty without a "."), stem being P without ext; with the three examples.
C9_ExtFromLastDot ==
    pc = "named" =>
        /\ IsStemCountExt(logFileName, option.Output, splitCount,
                          ExtOfWholePath(option.Output))
        /\ NamingExamples

\* C9 amended: NewSplitFileName(P, N) is stem + decimal(N) + ext for every path
\* P and N >= 1, ext being the substring of P from the last "." of its final
\* path element to the end (empty when the final element has no "."), stem
\* being P without ext; with the three examples.
C9_ExtFromFinalElement ==
    pc = "named" =>
        /\ IsStemCountExt(logFileName, option.Output, splitCount,
                          ExtOfFinalElement(option.Output))
        /\ NamingExamples

\* C9's case: the name derived for count 12 from a path whose only dot is in a
\* directory name.
C9_Witness ==
    /\ pc = "named"
    /\ option.Output = <<"d", ".", "d", "/", "f">>
    /\ splitCount = 12
    /\ logFileName = <<"d", ".", "d", "/", "f", "1", "2">>

\* C11: when Overwrite is false, no file that existed before the run (the base
\* path or a derived split name) has its prior content truncated or replaced by
\* the run, for the log and the gz output types.
C11_NoOverwriteWithoutFlag ==
    (option.Overwrite = FALSE /\ option.Type \in {"log", "gz"}) =>
        \A n \in DOMAIN fs : ~fs[n].truncated

\* C12: a failed write is fatal: after a write that returned an error Generate
\* has stopped with the error, so there is one failed write at most and no
\* line is produced or written after it.
C12_WriteFailureFatal ==
    (\E i \in 1..Len(segs) : segs[i].failed > 0) =>
        /\ pc = "error"
        /\ \A i \in 1..Len(segs) : segs[i].failed <= 1

\* A rollover's NewWriter has returned an error.
RolloverOpenFailed == \E i \in 2..Len(segs) : segs[i].kind = "nil"

\* C13: a failure to open the new writer during a rollover is fatal: Generate
\* has then returned the error; it goes on to no write or close on the nil
\* writer.
C13_RolloverOpenFailureFatal ==
    RolloverOpenFailed => pc = "error"

\* C14: for output type gz, closing a writer closes the compression layer and
\* then the file it wraps: no file of a closed writer has its descriptor open,
\* after a rollover and when Generate has returned.
C14_GzCloseClosesFile ==
    option.Type = "gz" =>
        \A i \in 1..Len(segs) : segs[i].closed => segs[i].name \notin fds

\* The number of writers of s that have been closed.
NumClosed(s) == Cardinality({i \in 1..Len(s) : s[i].closed})

\* C15: for the output types other than stdout, every segment file opened is
\* closed exactly once (never twice, and all of them once Generate has
\* returned), each is closed before the next one is opened, and one notice
\* naming it is printed per close: the notices are the names of the closed
\* segments in the order they were opened.
C15_CloseAndNoticeOnce ==
    option.Type # "stdout" =>
        /\ \A i \in 1..Len(segs) :
               /\ segs[i].closes <= 1
               /\ segs[i].closed <=> segs[i].closes = 1
               /\ segs[i].closed => segs[i].kind # "nil"
        /\ \A i \in 1..(Len(segs) - 1) : segs[i].closed
        /\ Finished => \A i \in 1..Len(segs) : segs[i].closed
        /\ notices = [k \in 1..NumClosed(segs) |-> segs[k].name]

\* C15's case: a finished gz run that closed and announced three segment files.
C15_Witness ==
    /\ option.Type = "gz" /\ Finished
    /\ Len(segs) = 3 /\ Len(notices) = 3
    /\ \A i \in 1..3 : segs[i].closes = 1 /\ notices[i] = segs[i].name

\* C16: a rollover happens in an iteration exactly when, after the write and
\* the update of the accumulator (+1 per line in line-count mode, + the byte
\* length of the line in byte-count mode), the output type is not stdout, the
\* split threshold is > 0 and accumulator > SplitBy * splitCount; an iteration
\* rolls over once at most.
C16_RolloverRule ==
    [][ (Len(produced') = Len(produced) + 1 /\ pc' = pc) =>
            LET acc == IF option.Bytes = 0 THEN line' ELSE bytes' IN
            /\ splitCount' \in {splitCount, splitCount + 1}
            /\ Len(segs') = Len(segs) + (splitCount' - splitCount)
            /\ (splitCount' = splitCount + 1) <=>
                   /\ option.Type # "stdout"
                   /\ option.SplitBy > 0
                   /\ acc > option.SplitBy * splitCount ]_vars

\* C17: the split index starts at 1 and is one more than the number of
\* rollovers; the first segment is opened at the base path and the k-th
\* rollover opens NewSplitFileName(option.Output, k), which is then the
\* current file name.
C17_SplitIndexAndNames ==
    /\ pc = "start" => (splitCount = 1 /\ segs = << >>)
    /\ segs # << >> =>
           /\ splitCount = Len(segs)
           /\ segs[1].name = option.Output
           /\ \A i \in 2..Len(segs) :
                  segs[i].name = NewSplitFileName(option.Output, i - 1)
           /\ logFileName = segs[Len(segs)].name
    /\ logFileName = IF splitCount = 1 THEN option.Output
                     ELSE NewSplitFileName(option.Output, splitCount - 1)

\* C17's case: a run after its third rollover.
C17_Witness ==
    /\ pc \in {"lines", "bytes", "final", "done"}
    /\ splitCount = 4 /\ Len(segs) = 4
    /\ segs[4].kind # "nil"

\* C18: the time offset starts at 0 and advances by exactly the pacing interval
\* once per iteration: the i-th produced line (i from 0) was requested with
\* offset i * Sleep.  (delta is in milliseconds, Sleep in microseconds.)
C18_OffsetIsMultipleOfSleep ==
    \A i \in 1..Len(produced) : produced[i].delta * 1000 = (i - 1) * option.Sleep

\* C19: Generate always terminates: in byte-count mode every iteration of the
\* loop brings the accumulator closer to the target, so that bytes >= Bytes is
\* reached after finitely many iterations, for every format.
C19_ByteLoopProgress ==
    [][ (pc = "bytes" /\ pc' = "bytes" /\ Len(produced') = Len(produced) + 1) =>
            bytes' > bytes ]_vars

\* C20: in a run of an output type other than stdout that generates at least
\* one line, every segment file that is opened and closed has received at
\* least one line.
C20_NoEmptySegment ==
    (option.Type # "stdout" /\ produced # << >>) =>
        \A i \in 1..Len(segs) : segs[i].closed => segs[i].lines >= 1

====
